---------------------------- MODULE Spec2Model ----------------------------
(***************************************************************************)
(* Model of scripts/grafana/normalize_dashboards.py: the dashboard         *)
(* normalizer (uid assignment, datasource rewriting, title deduplication   *)
(* and the driver main()).                                                 *)
(*                                                                         *)
(* Python strings are sequences of one-character strings, so that strip(), *)
(* lower(), the regular expressions and the slicing of the code are        *)
(* computed character by character.  JSON values are tagged records        *)
(* [t |-> tag, v |-> payload].                                             *)
(***************************************************************************)
EXTENDS Integers, Sequences, FiniteSets, TLC

-----------------------------------------------------------------------------
(* Characters and Python string primitives *)

UpperChars == <<"A","B","C","D","E","F","G","H","I","J","K","L","M",
                "N","O","P","Q","R","S","T","U","V","W","X","Y","Z">>

LowerChars == <<"a","b","c","d","e","f","g","h","i","j","k","l","m",
                "n","o","p","q","r","s","t","u","v","w","x","y","z">>

DigitChars == <<"0","1","2","3","4","5","6","7","8","9">>

Range(s) == {s[j] : j \in DOMAIN s}

IsSpace(c) == c \in {" ", "\t", "\n", "\r"}

\* x is evaluated once and its value handed to F: the assignment of an
\* intermediate result to a local variable
Then(x, F(_)) == CHOOSE r \in {F(val) : val \in {x}} : TRUE

\* str.lower() on one character
LowerChar(c) ==
    IF \E j \in DOMAIN UpperChars : UpperChars[j] = c
    THEN LowerChars[CHOOSE j \in DOMAIN UpperChars : UpperChars[j] = c]
    ELSE c

Lower(s) == [j \in DOMAIN s |-> LowerChar(s[j])]

\* str.strip(chars): drop the leading and trailing characters satisfying Drop
StripBy(s, Drop(_)) ==
    Then(s, LAMBDA x :
    Then({j \in DOMAIN x : ~Drop(x[j])}, LAMBDA keep :
    IF keep = {} THEN <<>>
    ELSE LET lo == CHOOSE j \in keep : \A k \in keep : j <= k
             hi == CHOOSE j \in keep : \A k \in keep : j >= k
         IN  SubSeq(x, lo, hi)))

Strip(s) == StripBy(s, IsSpace)

IsHyphen(c) == c = "-"

StripHyphens(s) == StripBy(s, IsHyphen)

\* variant: the slice of line 55 left out
TruncateNone(s, limit) == s

\* s[:limit]
Truncate(s, limit) == SubSeq(s, 1, IF Len(s) < limit THEN Len(s) ELSE limit)

\* str(i) for a natural number
RECURSIVE Dec(_)
Dec(n) == IF n < 10 THEN <<DigitChars[n + 1]>>
          ELSE Dec(n \div 10) \o <<DigitChars[(n % 10) + 1]>>

\* the positions 1..len(s) in order
Positions(s) == [j \in 1..Len(s) |-> j]

-----------------------------------------------------------------------------
(* slugify_uid, ensure_uid *)

UidLimit == 40

\* [a-zA-Z0-9_-]
UidChar(c) == \/ c \in Range(UpperChars)
              \/ c \in Range(LowerChars)
              \/ c \in Range(DigitChars)
              \/ c \in {"_", "-"}

\* [a-z0-9_-]
SlugChar(c) == \/ c \in Range(LowerChars)
               \/ c \in Range(DigitChars)
               \/ c \in {"_", "-"}

\* ^[a-zA-Z0-9_-]{1,40}$ : Python's $ also matches before one final newline
UID_ALLOWED(s) ==
    LET core(x) == /\ Len(x) >= 1
                   /\ Len(x) <= UidLimit
                   /\ \A j \in DOMAIN x : UidChar(x[j])
    IN  \/ core(s)
        \/ /\ Len(s) >= 2
           /\ s[Len(s)] = "\n"
           /\ core(SubSeq(s, 1, Len(s) - 1))

\* re.sub(r"[^a-z0-9_-]+", "-", s): each maximal run of other characters
\* becomes one hyphen
SubNonSlugRuns(s) ==
    Then(SelectSeq(Positions(s),
                   LAMBDA j : SlugChar(s[j]) \/ j = 1 \/ SlugChar(s[j - 1])),
         LAMBDA kept :
             [k \in DOMAIN kept |-> IF SlugChar(s[kept[k]]) THEN s[kept[k]] ELSE "-"])

\* re.sub(r"-{2,}", "-", s)
SubHyphenRuns(s) ==
    Then(SelectSeq(Positions(s),
                   LAMBDA j : s[j] # "-" \/ j = 1 \/ s[j - 1] # "-"),
         LAMBDA kept : [k \in DOMAIN kept |-> s[kept[k]]])

DefaultSlug == <<"d","a","s","h","b","o","a","r","d">>

slugify_uid(s) ==
    Then(Strip(s), LAMBDA s1 :
    Then(Lower(s1), LAMBDA s2 :
    Then(SubNonSlugRuns(s2), LAMBDA s3 :
    Then(SubHyphenRuns(s3), LAMBDA s3b :
    Then(StripHyphens(s3b), LAMBDA s4 :
    Then(Truncate(s4, UidLimit), LAMBDA s5 :
    IF s5 = <<>> THEN DefaultSlug ELSE s5))))))

ensure_uid(uid) ==
    Then(Strip(uid), LAMBDA u :
    IF UID_ALLOWED(u) THEN u ELSE slugify_uid(u))

-----------------------------------------------------------------------------
(* JSON values: [t |-> "null" | "num" | "bool" | "str" | "arr" | "obj", v |-> payload] *)
(* An object's payload is a function from its keys to JSON values.         *)

None == [t |-> "null", v |-> <<>>]

Str(s) == [t |-> "str", v |-> s]

Num(n) == [t |-> "num", v |-> n]

Arr(a) == [t |-> "arr", v |-> a]

Obj(f) == [t |-> "obj", v |-> f]

IsStr(x) == x.t = "str"

IsObj(x) == x.t = "obj"

IsArr(x) == x.t = "arr"

\* dict.get(k), None when the key is absent
Get(f, k) == IF k \in DOMAIN f THEN f[k] ELSE None

\* d[k] = val
Put(f, k, val) == [x \in DOMAIN f \cup {k} |-> IF x = k THEN val ELSE f[x]]

\* d.pop(k, None)
Pop(f, k) == [x \in DOMAIN f \ {k} |-> f[x]]

\* Python truthiness of a JSON value (x or default)
Truthy(x) ==
    CASE x.t = "null" -> FALSE
      [] x.t = "bool" -> x.v
      [] x.t = "num"  -> x.v # 0
      [] x.t = "str"  -> x.v # <<>>
      [] x.t = "arr"  -> x.v # <<>>
      [] x.t = "obj"  -> DOMAIN x.v # {}

-----------------------------------------------------------------------------
(* Datasource rewriting *)

PROM_UID == <<"D","S","_","P","R","O","M","E","T","H","E","U","S">>

PROM_NAME == <<"P","r","o","m","e","t","h","e","u","s">>

GRAFANA_INTERNAL_UID == <<"-","-"," ","G","r","a","f","a","n","a"," ","-","-">>

GRAFANA_INTERNAL_TYPE == <<"g","r","a","f","a","n","a">>

\* the literal "prometheus"
PROM_TYPE == <<"p","r","o","m","e","t","h","e","u","s">>

\* the literal "${DS_PROMETHEUS}"
PROM_PLACEHOLDER ==
    <<"$","{","D","S","_","P","R","O","M","E","T","H","E","U","S","}">>

\* f"${{{PROM_UID}}}"
PROM_UID_PLACEHOLDER == <<"$","{">> \o PROM_UID \o <<"}">>

\* variant: the type test of line 115 left out
is_grafana_internal_ds_uid_only(f) ==
    Get(f, "uid") = Str(GRAFANA_INTERNAL_UID)

is_grafana_internal_ds(f) ==
    \/ Get(f, "type") = Str(GRAFANA_INTERNAL_TYPE)
    \/ Get(f, "uid") = Str(GRAFANA_INTERNAL_UID)

\* variant: the object built for a string also carries the display name
prom_ds_object_named ==
    Obj([type |-> Str(PROM_TYPE), uid |-> Str(PROM_UID), name |-> Str(PROM_NAME)])

prom_ds_object == Obj([type |-> Str(PROM_TYPE), uid |-> Str(PROM_UID)])

\* variant: only the type test of lines 141-145
looks_like_prom_type_only(f) ==
    Get(f, "type") = Str(PROM_TYPE)

\* variant: any display name counts as Prometheus
looks_like_prom_any_name(f) ==
    \/ Get(f, "type") = Str(PROM_TYPE)
    \/ Get(f, "uid") \in {Str(PROM_UID), Str(PROM_UID_PLACEHOLDER), Str(PROM_PLACEHOLDER)}
    \/ Get(f, "name") # None

\* variant: of the uid forms only the plain DS_PROMETHEUS counts
looks_like_prom_plain_uid(f) ==
    \/ Get(f, "type") = Str(PROM_TYPE)
    \/ Get(f, "uid") = Str(PROM_UID)
    \/ Get(f, "name") = Str(PROM_NAME)

looks_like_prom(f) ==
    \/ Get(f, "type") = Str(PROM_TYPE)
    \/ Get(f, "uid") \in {Str(PROM_UID), Str(PROM_UID_PLACEHOLDER), Str(PROM_PLACEHOLDER)}
    \/ Get(f, "name") = Str(PROM_NAME)

\* variant: lines 147-151 run without the test of line 146
normalize_datasource_value_unguarded(ds_val) ==
    IF IsObj(ds_val) THEN
        IF is_grafana_internal_ds(ds_val.v) THEN ds_val
        ELSE Obj(Pop(Put(Put(ds_val.v, "type", Str(PROM_TYPE)),
                         "uid", Str(PROM_UID)), "name"))
    ELSE IF IsStr(ds_val) THEN
        LET s == Strip(ds_val.v)
        IN  IF s = GRAFANA_INTERNAL_UID
            THEN Obj([type |-> Str(GRAFANA_INTERNAL_TYPE),
                      uid |-> Str(GRAFANA_INTERNAL_UID)])
            ELSE IF s \in {PROM_NAME, PROM_UID, PROM_PLACEHOLDER, PROM_UID_PLACEHOLDER}
                 THEN prom_ds_object
                 ELSE ds_val
    ELSE ds_val

normalize_datasource_value(ds_val) ==
    IF IsObj(ds_val) THEN
        IF is_grafana_internal_ds(ds_val.v) THEN ds_val
        ELSE IF looks_like_prom(ds_val.v)
             THEN Obj(Pop(Put(Put(ds_val.v, "type", Str(PROM_TYPE)),
                              "uid", Str(PROM_UID)), "name"))
             ELSE ds_val
    ELSE IF IsStr(ds_val) THEN
        LET s == Strip(ds_val.v)
        IN  IF s = GRAFANA_INTERNAL_UID
            THEN Obj([type |-> Str(GRAFANA_INTERNAL_TYPE),
                      uid |-> Str(GRAFANA_INTERNAL_UID)])
            ELSE IF s \in {PROM_NAME, PROM_UID, PROM_PLACEHOLDER, PROM_UID_PLACEHOLDER}
                 THEN prom_ds_object
                 ELSE ds_val
    ELSE ds_val

RECURSIVE walk_and_patch(_)

\* variant: the value of a "query" key is normalized like a datasource
walk_and_patch_query_too(node) ==
    IF IsObj(node) THEN
        Obj([k \in DOMAIN node.v |->
                walk_and_patch(IF k \in {"datasource", "query"}
                               THEN normalize_datasource_value(node.v[k])
                               ELSE node.v[k])])
    ELSE IF IsArr(node) THEN
        Arr([j \in DOMAIN node.v |-> walk_and_patch(node.v[j])])
    ELSE node

\* variant: only the objects of a list are walked and kept
walk_and_patch_objects_only(node) ==
    IF IsObj(node) THEN
        LET f == IF "datasource" \in DOMAIN node.v
                 THEN Put(node.v, "datasource",
                          normalize_datasource_value(node.v["datasource"]))
                 ELSE node.v
        IN  Obj([k \in DOMAIN f |-> walk_and_patch(f[k])])
    ELSE IF IsArr(node) THEN
        LET objs == SelectSeq(node.v, IsObj)
        IN  Arr([j \in DOMAIN objs |-> walk_and_patch(objs[j])])
    ELSE node

walk_and_patch(node) ==
    IF IsObj(node) THEN
        LET f == IF "datasource" \in DOMAIN node.v
                 THEN Put(node.v, "datasource",
                          normalize_datasource_value(node.v["datasource"]))
                 ELSE node.v
        IN  Obj([k \in DOMAIN f |-> walk_and_patch(f[k])])
    ELSE IF IsArr(node) THEN
        Arr([j \in DOMAIN node.v |-> walk_and_patch(node.v[j])])
    ELSE node

ANGULAR == <<"a","n","g","u","l","a","r">>

RECURSIVE contains_angular(_)
contains_angular(node) ==
    IF IsObj(node) THEN
        \/ Get(node.v, "type") = Str(ANGULAR)
        \/ \E k \in DOMAIN node.v : contains_angular(node.v[k])
    ELSE IF IsArr(node) THEN
        \E j \in DOMAIN node.v : contains_angular(node.v[j])
    ELSE FALSE

-----------------------------------------------------------------------------
(* Paths, relative to DASH_ROOT, as character sequences *)

JsonSuffix == <<".","j","s","o","n">>

\* "manifest.json", the path of DASH_ROOT / "manifest.json"
ManifestPath == <<"m","a","n","i","f","e","s","t">> \o JsonSuffix

\* index of the last occurrence of c in p, 0 when there is none
LastIndexOf(p, c) ==
    LET at == {j \in DOMAIN p : p[j] = c}
    IN  IF at = {} THEN 0 ELSE CHOOSE j \in at : \A k \in at : k <= j

\* str(path.parent): the folder of a file
Parent(p) == SubSeq(p, 1, LastIndexOf(p, "/") - 1)

\* path.with_suffix(""): the suffix starts at the last dot of the final
\* component unless that dot is its first or its last character
WithoutSuffix(p) ==
    LET ns  == LastIndexOf(p, "/") + 1
        dot == LastIndexOf(p, ".")
    IN  IF dot > ns /\ dot < Len(p) THEN SubSeq(p, 1, dot - 1) ELSE p

\* s.replace("/", "-")
SlashToHyphen(s) == [j \in DOMAIN s |-> IF s[j] = "/" THEN "-" ELSE s[j]]

\* DASH_ROOT / folder / filename
JoinPath(folder, filename) == folder \o <<"/">> \o filename

make_default_uid_for_file(path) ==
    ensure_uid(slugify_uid(SlashToHyphen(WithoutSuffix(path))))

\* str(x) of a JSON scalar
PyStr(x) ==
    CASE x.t = "str"  -> x.v
      [] x.t = "num"  -> Dec(x.v)
      [] x.t = "bool" -> IF x.v THEN <<"T","r","u","e">> ELSE <<"F","a","l","s","e">>
      [] x.t = "null" -> <<"N","o","n","e">>

-----------------------------------------------------------------------------
(* load_manifest *)

\* the entries of data.get("dashboards", []) folded into the override map:
\* an entry without folder or filename is skipped, a later entry for the
\* same file replaces an earlier one
RECURSIVE ManifestFold(_, _, _)
ManifestFold(entries, k, out) ==
    IF k > Len(entries) THEN out
    ELSE LET d        == entries[k].v
             folder   == Get(d, "folder")
             filename == Get(d, "filename")
             uid      == Get(d, "uid")
         IN  IF ~Truthy(folder) \/ ~Truthy(filename)
             THEN ManifestFold(entries, k + 1, out)
             ELSE LET entry == [folder   |-> PyStr(folder),
                                filename |-> PyStr(filename),
                                uid      |-> IF Truthy(uid) THEN Str(PyStr(uid)) ELSE None]
                  IN  ManifestFold(entries, k + 1,
                                   Put(out, JoinPath(entry.folder, entry.filename), entry))

EmptyMap == [x \in {} |-> None]

load_manifest(d) ==
    IF ManifestPath \notin DOMAIN d THEN EmptyMap
    ELSE LET dashboards == Get(d[ManifestPath].v, "dashboards")
         IN  IF dashboards = None THEN EmptyMap
             ELSE ManifestFold(dashboards.v, 1, EmptyMap)

-----------------------------------------------------------------------------
(* ensure_unique_titles_per_folder *)

DefaultTitle == <<"D","a","s","h","b","o","a","r","d">>

UnknownUid == <<"u","n","k","n","o","w","n">>

\* str(dash.get(key) or "").strip() or fallback
StrippedOr(dash, key, fallback) ==
    LET x == Get(dash.v, key)
        s == IF Truthy(x) THEN Strip(PyStr(x)) ELSE <<>>
    IN  IF s = <<>> THEN fallback ELSE s

\* f"{title} ({uid})"
TitleWithUid(title, uid) == title \o <<" ", "(">> \o uid \o <<")">>

\* variant: i incremented before the title is built
TitleWithUidNLate(title, uid, n) ==
    title \o <<" ", "(">> \o uid \o <<"-">> \o Dec(n + 1) \o <<")">>

\* f"{title} ({uid}-{i})"
TitleWithUidN(title, uid, n) ==
    title \o <<" ", "(">> \o uid \o <<"-">> \o Dec(n) \o <<")">>

RECURSIVE DisambiguateTitle(_, _, _, _, _)

\* variant: the loop of lines 230-232 left out
DisambiguateTitleOnce(title, uid, used, new_title, n) == new_title

\* while new_title in used: new_title = f"{title} ({uid}-{i})"; i += 1
DisambiguateTitle(title, uid, used, new_title, n) ==
    IF new_title \in used
    THEN DisambiguateTitle(title, uid, used, TitleWithUidN(title, uid, n), n + 1)
    ELSE new_title

\* the loop over docs; seen maps a folder to the set of titles used in it
RECURSIVE DedupFrom(_, _, _)
DedupFrom(ds, k, seen) ==
    IF k > Len(ds) THEN ds
    ELSE LET folder_key == Parent(ds[k].path)
             dash  == ds[k].dash
             title == StrippedOr(dash, "title", DefaultTitle)
             uid   == StrippedOr(dash, "uid", UnknownUid)
             used  == IF folder_key \in DOMAIN seen THEN seen[folder_key] ELSE {}
         IN  IF title \notin used
             THEN DedupFrom(ds, k + 1, Put(seen, folder_key, used \cup {title}))
             ELSE LET new_title ==
                          DisambiguateTitle(title, uid, used, TitleWithUid(title, uid), 2)
                      patched == [ds[k] EXCEPT !.dash = Obj(Put(dash.v, "title", Str(new_title)))]
                  IN  DedupFrom([ds EXCEPT ![k] = patched], k + 1,
                                Put(seen, folder_key, used \cup {new_title}))

ensure_unique_titles_per_folder(ds) == DedupFrom(ds, 1, EmptyMap)

-----------------------------------------------------------------------------
(* The driver main() as a state machine *)

VARIABLES
    disk,          \* file path -> content of the file (a JSON value, or Bad)
    files,         \* the paths in the order iter_json_files yields them
    pc,            \* position of main(): start, load, assign, resolve, write, done
    rc,            \* exit code of the process, -1 while it runs
    manifest_map,  \* path -> ManifestEntry
    docs,          \* the list docs of (path, dash) pairs
    idx,           \* index in docs of the for loop of lines 263-297
    used_uids,     \* the set used_uids
    base,          \* the local base of the collision loop
    dash_uid,      \* the local dash_uid
    i,             \* the local i of the collision loop
    angular_files, \* the list angular_files
    widx,          \* index in docs of the write-back loop
    run,           \* number of the run of the script on this root: 1, 2
    op,            \* datasource functions applied on their own: idle, normalized, walked
    node_in,       \* argument of the function applied
    node_out,      \* its result
    now,           \* time.time(), in seconds
    timeout_s,     \* the parameter timeout_s of wait_http_ok and of retry
    w_pc,          \* position of wait_http_ok: loop, get, sleep, returned, raised
    t0,            \* the local t0 of wait_http_ok
    w_last,        \* the local last of wait_http_ok
    seen,          \* the responses wait_http_ok has received, in order
    r_pc,          \* position of retry: loop, call, sleep, returned, raised
    assert_fn,     \* the function handed to retry
    interval_s,    \* the parameter interval_s of retry
    deadline,      \* the local deadline of retry
    last_err,      \* the local last_err of retry
    raised,        \* the exception retry has ended with
    calls,         \* the outcomes of the calls of assert_fn, in order
    e_pc,          \* position of _load_env_file_if_present: idle, loaded
    loader,        \* which of the two _load_env_file_if_present is run
    env_file,      \* the lines of the env file, NoFile when there is none
    environ,       \* os.environ
    b_pc,          \* is_blocked: idle, judged
    candidate,     \* the path handed to both is_blocked
    hook_blocked,  \* result of is_blocked of the pre-commit hook
    test_blocked   \* result of is_blocked of the tracked-files test

httpVars == <<w_pc, t0, w_last, seen>>

retryVars == <<r_pc, assert_fn, interval_s, deadline, last_err, raised, calls>>


envVars == <<e_pc, loader, env_file, environ>>

blockVars == <<b_pc, candidate, hook_blocked, test_blocked>>

\* the state of the test helpers and of the pre-commit hook
testVars == <<now, timeout_s, httpVars, retryVars, envVars, blockVars>>

vars == <<disk, files, pc, rc, manifest_map, docs, idx, used_uids, base,
          dash_uid, i, angular_files, widx, run, op, node_in, node_out, testVars>>

mainVars == <<disk, files, pc, rc, manifest_map, docs, idx, used_uids, base,
              dash_uid, i, angular_files, widx, run>>

dsVars == <<op, node_in, node_out>>

\* no env file at the path
NoFile == [exists |-> FALSE, readable |-> FALSE, lines |-> <<>>]

\* the test helpers and the hook are not running
TestIdle ==
    /\ now = 0
    /\ timeout_s = 0
    /\ w_pc = "off"
    /\ t0 = 0
    /\ w_last = <<>>
    /\ seen = <<>>
    /\ r_pc = "off"
    /\ assert_fn = "none"
    /\ interval_s = 0
    /\ deadline = 0
    /\ last_err = <<>>
    /\ raised = <<>>
    /\ calls = <<>>
    /\ e_pc = "off"
    /\ loader = "none"
    /\ env_file = NoFile
    /\ environ = <<>>
    /\ b_pc = "off"
    /\ candidate = <<>>
    /\ hook_blocked = FALSE
    /\ test_blocked = FALSE

\* content of a file whose text is not valid JSON
Bad == [t |-> "bad", v |-> <<>>]

\* bound on the documents of a run
MaxDocs == 3

\* bound on the suffix counter i of the collision loop
MaxSuffix == 11

\* for f in iter_json_files(DASH_ROOT): every *.json file under the root
iter_json_files == files

\* lines 243-244, manifest missing or parsed
LoadManifest ==
    /\ pc = "start"
    /\ ManifestPath \in DOMAIN disk => disk[ManifestPath] # Bad
    /\ manifest_map' = load_manifest(disk)
    /\ pc' = "load"
    /\ UNCHANGED <<disk, files, rc, docs, idx, used_uids, base, dash_uid, i,
                   angular_files, widx, run, dsVars, testVars>>

\* variant: a manifest that does not parse is treated like a missing one
LoadManifestFailsSilently ==
    /\ pc = "start"
    /\ ManifestPath \in DOMAIN disk
    /\ disk[ManifestPath] = Bad
    /\ manifest_map' = EmptyMap
    /\ pc' = "load"
    /\ UNCHANGED <<disk, files, rc, docs, idx, used_uids, base, dash_uid, i,
                   angular_files, widx, run, dsVars, testVars>>

\* lines 93-96: RuntimeError, the process ends with a traceback and status 1
LoadManifestFails ==
    /\ pc = "start"
    /\ ManifestPath \in DOMAIN disk
    /\ disk[ManifestPath] = Bad
    /\ pc' = "done"
    /\ rc' = 1
    /\ UNCHANGED <<disk, files, manifest_map, docs, idx, used_uids, base,
                   dash_uid, i, angular_files, widx, run, dsVars, testVars>>

\* variant: the checks of lines 249-256 left out
LoadableUnchecked(f) == TRUE

Loadable(f) == disk[f] # Bad /\ IsObj(disk[f])

\* lines 246-261, every file parsed to an object
LoadDocs ==
    /\ pc = "load"
    /\ \A k \in DOMAIN iter_json_files : Loadable(iter_json_files[k])
    /\ docs' = [k \in DOMAIN iter_json_files |->
                   [path |-> iter_json_files[k], dash |-> disk[iter_json_files[k]]]]
    /\ used_uids' = {}
    /\ angular_files' = <<>>
    /\ idx' = 1
    /\ pc' = "assign"
    /\ UNCHANGED <<disk, files, rc, manifest_map, base, dash_uid, i, widx, run, dsVars, testVars>>

\* lines 251-256: return 3 at the first file that is not a JSON object
LoadDocsFails ==
    /\ pc = "load"
    /\ \E k \in DOMAIN iter_json_files : ~Loadable(iter_json_files[k])
    /\ pc' = "done"
    /\ rc' = 3
    /\ UNCHANGED <<disk, files, manifest_map, docs, idx, used_uids, base,
                   dash_uid, i, angular_files, widx, run, dsVars, testVars>>

\* variant: an existing uid that is not valid is replaced by the path slug
BaseUidInvalidToPath(path, dash) ==
    LET entry    == Get(manifest_map, path)
        existing == Get(dash.v, "uid")
    IN  IF entry # None /\ Truthy(entry.uid)
        THEN ensure_uid(entry.uid.v)
        ELSE IF IsStr(existing) /\ UID_ALLOWED(existing.v)
             THEN existing.v
             ELSE make_default_uid_for_file(path)

\* variant: the existing uid is never looked at
BaseUidIgnoresExisting(path, dash) ==
    LET entry == Get(manifest_map, path)
    IN  IF entry # None /\ Truthy(entry.uid)
        THEN ensure_uid(entry.uid.v)
        ELSE make_default_uid_for_file(path)

\* variant: the existing uid is preferred to the manifest uid
BaseUidExistingFirst(path, dash) ==
    LET entry    == Get(manifest_map, path)
        existing == Get(dash.v, "uid")
    IN  IF IsStr(existing) /\ Strip(existing.v) # <<>>
        THEN ensure_uid(Strip(existing.v))
        ELSE IF entry # None /\ Truthy(entry.uid)
             THEN ensure_uid(entry.uid.v)
             ELSE make_default_uid_for_file(path)

\* lines 267-277: the uid the collision loop starts from
BaseUid(path, dash) ==
    LET entry    == Get(manifest_map, path)
        existing == Get(dash.v, "uid")
    IN  IF entry # None /\ Truthy(entry.uid)
        THEN ensure_uid(entry.uid.v)
        ELSE IF IsStr(existing) /\ Strip(existing.v) # <<>>
             THEN ensure_uid(Strip(existing.v))
             ELSE make_default_uid_for_file(path)

\* variant: the datasources are patched before the uid is chosen
AssignBaseWalksFirst ==
    /\ pc = "assign"
    /\ idx <= Len(docs)
    /\ LET dash == walk_and_patch(Obj(Put(docs[idx].dash.v, "id", None)))
       IN  /\ docs' = [docs EXCEPT ![idx].dash = dash]
           /\ dash_uid' = BaseUid(docs[idx].path, dash)
           /\ base' = dash_uid'
    /\ i' = 2
    /\ pc' = "resolve"
    /\ UNCHANGED <<disk, files, rc, manifest_map, idx, used_uids,
                   angular_files, widx, run, dsVars, testVars>>

\* variant: line 265 left out
AssignBaseKeepsId ==
    /\ pc = "assign"
    /\ idx <= Len(docs)
    /\ dash_uid' = BaseUid(docs[idx].path, docs[idx].dash)
    /\ base' = dash_uid'
    /\ i' = 2
    /\ pc' = "resolve"
    /\ UNCHANGED <<disk, files, rc, manifest_map, docs, idx, used_uids,
                   angular_files, widx, run, dsVars, testVars>>

\* lines 263-281: id nulled, base uid chosen
AssignBase ==
    /\ pc = "assign"
    /\ idx <= Len(docs)
    /\ LET dash == Obj(Put(docs[idx].dash.v, "id", None))
       IN  /\ docs' = [docs EXCEPT ![idx].dash = dash]
           /\ dash_uid' = BaseUid(docs[idx].path, dash)
           /\ base' = dash_uid'
    /\ i' = 2
    /\ pc' = "resolve"
    /\ UNCHANGED <<disk, files, rc, manifest_map, idx, used_uids,
                   angular_files, widx, run, dsVars, testVars>>

\* f"{base}-{i}"
Suffixed(b, n) == b \o <<"-">> \o Dec(n)

\* variant: "if" instead of "while", a single attempt with the suffix -2
CollidesOnce == dash_uid \in used_uids /\ i = 2

\* line 282: the condition of the while loop
Collides == dash_uid \in used_uids

\* lines 282-284: one iteration of the collision loop
ResolveStep ==
    /\ pc = "resolve"
    /\ Collides
    /\ i <= MaxSuffix
    /\ dash_uid' = ensure_uid(Suffixed(base, i))
    /\ i' = i + 1
    /\ UNCHANGED <<disk, files, pc, rc, manifest_map, docs, idx, used_uids,
                   base, angular_files, widx, run, dsVars, testVars>>

\* variant: the switch of line 41 turned on
KEEP_INPUTS_on == TRUE

\* line 41
KEEP_INPUTS == FALSE

\* lines 285-297: uid stored, datasources patched, __inputs removed
FinishDoc ==
    /\ pc = "resolve"
    /\ ~Collides
    /\ LET d1 == Obj(Put(docs[idx].dash.v, "uid", Str(dash_uid)))
           d2 == walk_and_patch(d1)
           d3 == IF KEEP_INPUTS THEN d2 ELSE Obj(Pop(d2.v, "__inputs"))
       IN  /\ docs' = [docs EXCEPT ![idx].dash = d3]
           /\ angular_files' = IF contains_angular(d3)
                               THEN Append(angular_files, docs[idx].path)
                               ELSE angular_files
    /\ used_uids' = used_uids \cup {dash_uid}
    /\ idx' = idx + 1
    /\ pc' = "assign"
    /\ UNCHANGED <<disk, files, rc, manifest_map, base, dash_uid, i, widx, run, dsVars, testVars>>

\* lines 299-300
EnsureUniqueTitles ==
    /\ pc = "assign"
    /\ idx > Len(docs)
    /\ docs' = ensure_unique_titles_per_folder(docs)
    /\ widx' = 1
    /\ pc' = "write"
    /\ UNCHANGED <<disk, files, rc, manifest_map, idx, used_uids, base,
                   dash_uid, i, angular_files, run, dsVars, testVars>>

\* lines 303-304: one file written back
WriteFile ==
    /\ pc = "write"
    /\ widx <= Len(docs)
    /\ disk' = [disk EXCEPT ![docs[widx].path] = docs[widx].dash]
    /\ widx' = widx + 1
    /\ UNCHANGED <<files, pc, rc, manifest_map, docs, idx, used_uids, base,
                   dash_uid, i, angular_files, run, dsVars, testVars>>

\* variant: the warning of lines 307-310 turned into an error status
FinishAngularFatal ==
    /\ pc = "write"
    /\ widx > Len(docs)
    /\ pc' = "done"
    /\ rc' = IF angular_files # <<>> THEN 3 ELSE 0
    /\ UNCHANGED <<disk, files, manifest_map, docs, idx, used_uids, base,
                   dash_uid, i, angular_files, widx, run, dsVars, testVars>>

\* lines 306-324: summary and warnings printed, return 0
Finish ==
    /\ pc = "write"
    /\ widx > Len(docs)
    /\ pc' = "done"
    /\ rc' = 0
    /\ UNCHANGED <<disk, files, manifest_map, docs, idx, used_uids, base,
                   dash_uid, i, angular_files, widx, run, dsVars, testVars>>

\* lines 327-328: the script is started again on the root the first run left
Restart ==
    /\ pc = "done"
    /\ rc = 0
    /\ run = 1
    /\ run' = 2
    /\ pc' = "start"
    /\ rc' = -1
    /\ manifest_map' = EmptyMap
    /\ docs' = <<>>
    /\ idx' = 0
    /\ used_uids' = {}
    /\ base' = <<>>
    /\ dash_uid' = <<>>
    /\ i' = 0
    /\ angular_files' = <<>>
    /\ widx' = 0
    /\ UNCHANGED <<disk, files, dsVars, testVars>>

Next ==
    \/ LoadManifest
    \/ LoadManifestFails
    \/ LoadDocs
    \/ LoadDocsFails
    \/ AssignBase
    \/ ResolveStep
    \/ FinishDoc
    \/ EnsureUniqueTitles
    \/ WriteFile
    \/ Finish
    \/ Restart

-----------------------------------------------------------------------------
(* Initial states: the dashboards root before a run *)

Rep(c, n) == [j \in 1..n |-> c]

Absent == [t |-> "absent", v |-> <<>>]

\* an object with the fields that are not Absent
Dict(fields) == Obj([k \in {x \in DOMAIN fields : fields[x] # Absent} |-> fields[k]])

PathAW == <<"a","/","w">> \o JsonSuffix

PathAX == <<"a","/","x">> \o JsonSuffix

PathAY == <<"a","/","y">> \o JsonSuffix

PathAZ == <<"a","/","z">> \o JsonSuffix

PathBX == <<"b","/","x">> \o JsonSuffix

PathBY == <<"b","/","y">> \o JsonSuffix

\* traversal orders of the dashboard files
PathOrders ==
    { <<PathAW, PathAX, PathAY, PathAZ>>,
      <<PathAW, PathBX, PathAX, PathBY>> }

PanelProm ==
    Dict([type |-> Str(<<"g","r","a","p","h">>),
          datasource |-> Str(PROM_PLACEHOLDER),
          targets |-> Arr(<< Dict([expr |-> Str(<<"u","p">>),
                                  query |-> Str(PROM_PLACEHOLDER),
                                  datasource |-> Dict([uid |-> Str(PROM_PLACEHOLDER)])]) >>)])

PanelAngular ==
    Dict([type |-> Str(ANGULAR),
          datasource |-> Dict([type |-> Str(GRAFANA_INTERNAL_TYPE),
                               uid |-> Str(GRAFANA_INTERNAL_UID)])])

Inputs == Arr(<< Dict([name |-> Str(PROM_UID)]) >>)

TitleT == <<"T">>

UidAX == <<"a","-","x">>

UidU == <<"u">>

\* documents that differ in their uid
UidDocs ==
    { Dict([uid |-> Absent, title |-> Str(TitleT), id |-> Num(7),
            panels |-> Arr(<<PanelProm>>), __inputs |-> Inputs]),
      Dict([uid |-> Str(UidAX), title |-> Str(TitleT), id |-> None,
            panels |-> Arr(<<PanelAngular>>), __inputs |-> Absent]),
      Dict([uid |-> Str(<<"A"," ","x","$">>), title |-> Absent, id |-> Absent,
            panels |-> Arr(<<>>), __inputs |-> Absent]),
      Dict([uid |-> Str(<<" "," ">>), title |-> Str(TitleT), id |-> Num(7),
            panels |-> Absent, __inputs |-> Inputs]),
      Dict([uid |-> Str(Rep("a", UidLimit - 1)), title |-> Str(TitleT), id |-> Num(7),
            panels |-> Absent, __inputs |-> Absent]),
      Dict([uid |-> Str(Rep("a", UidLimit)), title |-> Str(TitleT), id |-> Num(7),
            panels |-> Absent, __inputs |-> Absent]),
      Dict([uid |-> Num(5), title |-> Str(TitleT), id |-> Absent,
            links |-> Arr(<< Dict([type |-> Str(<<"l","i","n","k">>),
                                   uid |-> Str(<<"A"," ","x","$">>)]) >>)]) }

\* files that are not dashboards: a JSON array, a text that is not JSON
BrokenDocs == { Arr(<<>>), Bad }

\* documents that differ in their title
TitleDocs ==
    { Dict([uid |-> Str(UidU), title |-> t]) :
        t \in { Absent, Str(<<>>), Str(TitleT), Str(<<" ","T"," ">>),
                Str(<<"T"," ","(","u","-","3",")">>), Str(DefaultTitle) } }

ManifestEntry(folder, filename, uid) ==
    Dict([folder |-> folder, filename |-> filename, uid |-> uid])

\* contents of manifest.json
ManifestContents ==
    { Dict([dashboards |-> Arr(<<
          ManifestEntry(Str(<<"a">>), Str(<<"x">> \o JsonSuffix), Str(<<"G"," ","1">>)),
          ManifestEntry(Absent, Str(<<"w">> \o JsonSuffix), Str(<<"g">>)) >>)]),
      Dict([dashboards |-> Arr(<<
          ManifestEntry(Str(<<"a">>), Str(<<"x">> \o JsonSuffix), Str(<<"z">>)),
          ManifestEntry(Str(<<"a">>), Str(<<"x">> \o JsonSuffix), Str(<<"a","-","w">>)),
          ManifestEntry(Str(<<"a">>), Str(<<"y">> \o JsonSuffix), None) >>)]) }

\* the dashboards root: files in traversal order and their contents
Root(paths, content, manifest, manifestFirst) ==
    LET withManifest == manifest # Absent
    IN  [ files |-> IF ~withManifest THEN paths
                    ELSE IF manifestFirst THEN <<ManifestPath>> \o paths
                         ELSE paths \o <<ManifestPath>>,
          disk  |-> [p \in Range(paths) \cup (IF withManifest THEN {ManifestPath} ELSE {}) |->
                        IF p \in Range(paths)
                        THEN content[CHOOSE k \in DOMAIN paths : paths[k] = p]
                        ELSE manifest] ]

UidRoots ==
    UNION { { Root(SubSeq(<<PathAW, PathAX, PathAY, PathAZ>>, 1, n), c, m, first) :
                c \in [1..n -> UidDocs],
                m \in ManifestContents \cup {Absent},
                first \in BOOLEAN } :
            n \in 1..MaxDocs }

\* roots with broken files among the dashboards or a broken manifest
BrokenRoots ==
    UNION { { Root(SubSeq(<<PathAW, PathAX, PathAY, PathAZ>>, 1, n), c, m, first) :
                c \in [1..n -> BrokenDocs \cup {Dict([uid |-> Str(UidU)])}],
                m \in {Absent, Bad},
                first \in BOOLEAN } :
            n \in 1..MaxDocs }

TitleRoots ==
    UNION { { Root(SubSeq(order, 1, n), c, Absent, FALSE) :
                c \in [1..n -> TitleDocs], order \in PathOrders } :
            n \in 1..MaxDocs }

InitMain(roots) ==
    /\ \E r \in roots : files = r.files /\ disk = r.disk
    /\ pc = "start"
    /\ rc = -1
    /\ manifest_map = EmptyMap
    /\ docs = <<>>
    /\ idx = 0
    /\ used_uids = {}
    /\ base = <<>>
    /\ dash_uid = <<>>
    /\ i = 0
    /\ angular_files = <<>>
    /\ widx = 0
    /\ run = 1
    /\ TestIdle
    /\ op = "off"
    /\ node_in = None
    /\ node_out = None

Init == InitMain(UidRoots \cup TitleRoots \cup BrokenRoots)

Spec == Init /\ [][Next]_vars

\* the collision loop and the loops over docs are not interrupted
FairSpec == Spec /\ WF_vars(Next)

TypeOK ==
    /\ pc \in {"start", "load", "assign", "resolve", "write", "done"}
    /\ rc \in {-1, 0, 1, 3}
    /\ idx \in 0..(Len(docs) + 1)
    /\ i \in {0} \cup 2..(MaxSuffix + 1)
    /\ run \in {1, 2}

-----------------------------------------------------------------------------
(* The datasource functions applied on their own to a bounded set of values *)

LOGS_TYPE ==
    <<"v","i","c","t","o","r","i","a","m","e","t","r","i","c","s","-",
      "l","o","g","s","-","d","a","t","a","s","o","u","r","c","e">>

LOGS_UID == <<"v","i","c","t","o","r","i","a","l","o","g","s">>

Padded(s) == <<" ">> \o s \o <<" ">>

DsTypes == { Absent, Str(PROM_TYPE), Str(GRAFANA_INTERNAL_TYPE), Str(LOGS_TYPE),
             Str(<<"l","o","k","i">>) }

DsUids == { Absent, Str(PROM_UID), Str(PROM_PLACEHOLDER), Str(GRAFANA_INTERNAL_UID),
            Str(LOGS_UID), Str(<<"x">>) }

DsNames == { Absent, Str(PROM_NAME), Str(<<"n">>) }

DsExtras == { Absent, Str(<<"d","b">>) }

DsNested == { Absent, Str(PROM_NAME) }

DsObjects ==
    { Dict([type |-> ty, uid |-> u, name |-> nm, database |-> ex, datasource |-> ne]) :
        ty \in DsTypes, u \in DsUids, nm \in DsNames, ex \in DsExtras, ne \in DsNested }

DsStrings ==
    { Str(PROM_NAME), Str(PROM_UID), Str(PROM_PLACEHOLDER), Str(GRAFANA_INTERNAL_UID),
      Str(Padded(PROM_NAME)), Str(Padded(GRAFANA_INTERNAL_UID)), Str(LOGS_UID),
      Str(PROM_TYPE), Str(<<>>), Str(<<"x">>) }

DsOthers == { None, Num(1), Arr(<<Str(PROM_NAME)>>) }

DsValues == DsObjects \cup DsStrings \cup DsOthers

\* a dashboard with the datasource value v at its top level
TreeTop(v) ==
    Dict([datasource |-> v, title |-> Str(PROM_NAME), uid |-> Str(PROM_PLACEHOLDER),
          id |-> Num(7)])

\* a dashboard with v at panel, target and templating level, inside arrays
TreeDeep(v) ==
    Dict([panels |-> Arr(<< Dict([datasource |-> v,
                                  type |-> Str(PROM_TYPE),
                                  targets |-> Arr(<< Dict([datasource |-> v,
                                                           expr |-> Str(<<"u","p">>)]),
                                                     Num(5) >>)]),
                            Str(PROM_NAME),
                            Arr(<< Dict([datasource |-> v]), None >>) >>),
          templating |-> Dict([list |-> Arr(<< Dict([name |-> Str(PROM_NAME),
                                                     datasource |-> v]) >>)]),
          __inputs |-> Inputs])

DsTrees == { TreeTop(v) : v \in DsValues } \cup { TreeDeep(v) : v \in DsValues }

InitDs ==
    /\ op = "idle"
    /\ node_in \in DsValues \cup DsTrees
    /\ node_out = None
    /\ files = <<>>
    /\ disk = EmptyMap
    /\ pc = "off"
    /\ rc = -1
    /\ manifest_map = EmptyMap
    /\ docs = <<>>
    /\ idx = 0
    /\ used_uids = {}
    /\ base = <<>>
    /\ dash_uid = <<>>
    /\ i = 0
    /\ angular_files = <<>>
    /\ widx = 0
    /\ run = 0
    /\ TestIdle

ApplyNormalize ==
    /\ op = "idle"
    /\ node_out' = normalize_datasource_value(node_in)
    /\ op' = "normalized"
    /\ UNCHANGED <<node_in, mainVars, testVars>>

ApplyWalk ==
    /\ op = "idle"
    /\ node_out' = walk_and_patch(node_in)
    /\ op' = "walked"
    /\ UNCHANGED <<node_in, mainVars, testVars>>

NextDs == ApplyNormalize \/ ApplyWalk

SpecDs == InitDs /\ [][NextDs]_vars

-----------------------------------------------------------------------------
(* Properties of the datasource rewriter (SpecDs) *)

\* the canonical metrics datasource {"type": "prometheus", "uid": "DS_PROMETHEUS"}
CanonicalProm == [t |-> "obj", v |-> [type |-> Str(PROM_TYPE), uid |-> Str(PROM_UID)]]

\* the canonical internal datasource {"type": "grafana", "uid": "-- Grafana --"}
CanonicalInternal ==
    [t |-> "obj", v |-> [type |-> Str(GRAFANA_INTERNAL_TYPE), uid |-> Str(GRAFANA_INTERNAL_UID)]]

\* an object carrying one of the Prometheus marks: type, uid alias, display name
PromAliasObj(x) ==
    /\ x.t = "obj"
    /\ \/ Get(x.v, "type") = Str(PROM_TYPE)
       \/ Get(x.v, "uid") = Str(PROM_UID)
       \/ Get(x.v, "uid") = Str(PROM_PLACEHOLDER)
       \/ Get(x.v, "name") = Str(PROM_NAME)

PromAliasStr(x) == x \in {Str(PROM_NAME), Str(PROM_UID), Str(PROM_PLACEHOLDER)}

InternalObj(x) ==
    /\ x.t = "obj"
    /\ \/ Get(x.v, "type") = Str(GRAFANA_INTERNAL_TYPE)
       \/ Get(x.v, "uid") = Str(GRAFANA_INTERNAL_UID)

KnownLiterals == {PROM_NAME, PROM_UID, PROM_PLACEHOLDER, GRAFANA_INTERNAL_UID}

\* C5 as stated: every value matching a Prometheus alias is returned as exactly
\* the two-key object {type: prometheus, uid: DS_PROMETHEUS}
C5_ExactlyCanonical ==
    (op = "normalized" /\ (PromAliasObj(node_in) \/ PromAliasStr(node_in)))
        => node_out = CanonicalProm

\* C5 amended: an object matching a Prometheus alias that is not the internal
\* datasource comes back with type prometheus, uid DS_PROMETHEUS, without its
\* name key and with every other key kept; an alias string comes back as
\* exactly the two-key object
C5_PromNormalized ==
    op = "normalized" =>
        /\ (PromAliasObj(node_in) /\ ~InternalObj(node_in)) =>
              /\ node_out.t = "obj"
              /\ DOMAIN node_out.v = (DOMAIN node_in.v \cup {"type", "uid"}) \ {"name"}
              /\ node_out.v["type"] = Str(PROM_TYPE)
              /\ node_out.v["uid"] = Str(PROM_UID)
              /\ \A k \in DOMAIN node_out.v \ {"type", "uid"} : node_out.v[k] = node_in.v[k]
        /\ PromAliasStr(node_in) => node_out = CanonicalProm

C5_Witness ==
    /\ op = "normalized"
    /\ node_in = Dict([uid |-> Str(PROM_PLACEHOLDER), name |-> Str(<<"n">>),
                       database |-> Str(<<"d","b">>)])
    /\ node_out = Dict([type |-> Str(PROM_TYPE), uid |-> Str(PROM_UID),
                        database |-> Str(<<"d","b">>)])

\* the tree with every value stored under a key "datasource" blanked
RECURSIVE Skeleton(_)
Skeleton(x) ==
    IF x.t = "obj"
    THEN [t |-> "obj",
          v |-> [k \in DOMAIN x.v |-> IF k = "datasource" THEN None ELSE Skeleton(x.v[k])]]
    ELSE IF x.t = "arr"
         THEN [t |-> "arr", v |-> [j \in DOMAIN x.v |-> Skeleton(x.v[j])]]
         ELSE x

\* in the walked tree b, every internal datasource object of a is where it was,
\* with all its keys and values outside nested "datasource" keys
RECURSIVE InternalKept(_, _)
InternalKept(a, b) ==
    IF a.t = "obj"
    THEN /\ b.t = "obj"
         /\ DOMAIN b.v = DOMAIN a.v
         /\ \A k \in DOMAIN a.v :
               /\ (k = "datasource" /\ InternalObj(a.v[k]))
                     => Skeleton(b.v[k]) = Skeleton(a.v[k])
               /\ (k # "datasource" \/ InternalObj(a.v[k]))
                     => InternalKept(a.v[k], b.v[k])
    ELSE IF a.t = "arr"
         THEN /\ b.t = "arr"
              /\ Len(b.v) = Len(a.v)
              /\ \A j \in DOMAIN a.v : InternalKept(a.v[j], b.v[j])
         ELSE TRUE

\* C6 as stated: the internal datasource, object or string, is returned unchanged
C6_InternalUnchanged ==
    (op = "normalized" /\ (InternalObj(node_in) \/ node_in = Str(GRAFANA_INTERNAL_UID)))
        => node_out = node_in

\* C6 amended: an internal datasource object is returned unchanged, in a walked
\* tree it keeps its place, keys and values at every depth (only a nested
\* "datasource" value inside it is normalized in turn); the string
\* "-- Grafana --" is replaced by the object {type: grafana, uid: -- Grafana --}
C6_InternalObjectKept ==
    /\ (op = "normalized" /\ InternalObj(node_in)) => node_out = node_in
    /\ (op = "normalized" /\ node_in = Str(GRAFANA_INTERNAL_UID))
          => node_out = CanonicalInternal
    /\ op = "walked" => InternalKept(node_in, node_out)

C6_Witness ==
    /\ op = "walked"
    /\ node_in = TreeDeep(Dict([type |-> Str(GRAFANA_INTERNAL_TYPE), uid |-> Str(PROM_UID),
                                name |-> Str(PROM_NAME)]))
    /\ node_out = node_in

\* C7 as stated: an object matching no Prometheus rule and not internal, and a
\* string that is none of the known literals, are returned unchanged
C7_UnknownUnchanged ==
    (op = "normalized" /\
        \/ (node_in.t = "obj" /\ ~PromAliasObj(node_in) /\ ~InternalObj(node_in))
        \/ (node_in.t = "str" /\ node_in.v \notin KnownLiterals))
        => node_out = node_in

\* C7 amended: the same, for a string that is none of the known literals once
\* its surrounding whitespace is removed
C7_UnknownStrippedUnchanged ==
    (op = "normalized" /\
        \/ (node_in.t = "obj" /\ ~PromAliasObj(node_in) /\ ~InternalObj(node_in))
        \/ (node_in.t = "str" /\ Strip(node_in.v) \notin KnownLiterals))
        => node_out = node_in

C7_Witness ==
    /\ op = "normalized"
    /\ node_in = Dict([type |-> Str(<<"l","o","k","i">>), uid |-> Str(<<"x">>),
                       name |-> Str(<<"n">>)])
    /\ node_out = node_in

C9_WalkFrame ==
    op = "walked" => Skeleton(node_out) = Skeleton(node_in)

C9_Witness ==
    /\ op = "walked"
    /\ node_in = TreeDeep(Str(PROM_PLACEHOLDER))
    /\ node_out = TreeDeep(CanonicalProm)

-----------------------------------------------------------------------------
(* Properties of a run of main() (Spec, FairSpec) *)

RunSucceeded == pc = "done" /\ rc = 0

UidOf(dash) == Get(dash.v, "uid")

TitleOf(dash) == Get(dash.v, "title")

\* C1: after a run no two documents have the same uid
C1_UniqueUids ==
    RunSucceeded =>
        \A p, q \in DOMAIN disk : p # q => UidOf(disk[p]) # UidOf(disk[q])

C1_Witness ==
    /\ RunSucceeded
    /\ \E p, q \in DOMAIN disk :
          /\ UidOf(disk[q]) = Str(UidAX)
          /\ UidOf(disk[p]) = Str(UidAX \o <<"-","3">>)

\* C2: uid assignment cannot hang: every run of main() comes to its end
C2_AssignmentTerminates == <>(pc = "done")

\* C3: every uid written is non-empty, at most 40 characters long and made of
\* letters, digits, "_" and "-"
C3_ValidUids ==
    RunSucceeded =>
        \A p \in DOMAIN disk :
            LET u == UidOf(disk[p])
            IN  /\ u.t = "str"
                /\ Len(u.v) >= 1
                /\ Len(u.v) <= 40
                /\ \A j \in DOMAIN u.v :
                      u.v[j] \in Range(UpperChars) \cup Range(LowerChars)
                                 \cup Range(DigitChars) \cup {"_", "-"}

C3_Witness ==
    /\ RunSucceeded
    /\ \E p, q \in DOMAIN disk :
          /\ UidOf(disk[p]) = Str(Rep("a", 39) \o <<"-">>)
          /\ UidOf(disk[q]) = Str(UidAX)

\* C4: after title deduplication no two documents of one directory have the
\* same title
C4_UniqueTitlesPerFolder ==
    pc \in {"write", "done"} =>
        \A a, b \in DOMAIN docs :
            (a # b /\ Parent(docs[a].path) = Parent(docs[b].path))
                => TitleOf(docs[a].dash) # TitleOf(docs[b].dash)

C4_Witness ==
    /\ pc = "write"
    /\ \E a, b, c \in DOMAIN docs :
          /\ a < b /\ b < c
          /\ TitleOf(docs[a].dash) = Str(<<"T"," ","(","u","-","3",")">>)
          /\ TitleOf(docs[b].dash) = Str(TitleT)
          /\ TitleOf(docs[c].dash) = Str(<<"T"," ","(","u","-","3","-","2",")">>)

\* the entries of manifest.json on disk that name the file p
ManifestEntriesFor(p) ==
    IF ManifestPath \notin DOMAIN disk \/ disk[ManifestPath].t # "obj" THEN {}
    ELSE LET es == Get(disk[ManifestPath].v, "dashboards")
         IN  IF es.t # "arr" THEN {}
             ELSE { k \in DOMAIN es.v :
                      /\ Get(es.v[k].v, "folder").t = "str"
                      /\ Get(es.v[k].v, "filename").t = "str"
                      /\ Get(es.v[k].v, "folder").v \o <<"/">>
                            \o Get(es.v[k].v, "filename").v = p }

\* C10: a document whose manifest entry specifies a uid starts from the
\* sanitized manifest uid, whatever its own uid and its path are
C10_ManifestUidFirst ==
    pc = "resolve" =>
        LET ks == ManifestEntriesFor(docs[idx].path)
        IN  ks # {} =>
              LET last == CHOOSE k \in ks : \A m \in ks : m <= k
                  uid  == Get(disk[ManifestPath].v["dashboards"].v[last].v, "uid")
              IN  (uid.t = "str" /\ uid.v # <<>>) => base = ensure_uid(uid.v)

C10_Witness ==
    /\ pc = "resolve"
    /\ docs[idx].path = PathAX
    /\ UidOf(docs[idx].dash) = Str(Rep("a", 40))
    /\ base = <<"g","-","1">>
    /\ dash_uid = base

\* a string of 1 to 40 letters, digits, "_" and "-"
ValidUidValue(x) ==
    /\ x.t = "str"
    /\ Len(x.v) >= 1
    /\ Len(x.v) <= 40
    /\ \A j \in DOMAIN x.v :
          x.v[j] \in Range(UpperChars) \cup Range(LowerChars)
                     \cup Range(DigitChars) \cup {"_", "-"}

\* the manifest gives no uid for the file p
NoManifestUid(p) ==
    \/ p \notin DOMAIN manifest_map
    \/ manifest_map[p].uid = None

\* the step that writes the document docs[widx] back to its file
WritesDoc == pc = "write" /\ widx <= Len(docs) /\ widx' = widx + 1

\* the uids given to the documents before docs[k]
EarlierUids(k) == { UidOf(docs[j].dash) : j \in 1..(k - 1) }

\* C11: a document without manifest uid whose uid is valid and not given to an
\* earlier document of the run is written back with the uid it had
C11_ValidUidKept ==
    [][ WritesDoc =>
          LET p   == docs[widx].path
              old == UidOf(disk[p])
          IN  (NoManifestUid(p) /\ ValidUidValue(old) /\ old \notin EarlierUids(widx))
                  => UidOf(disk'[p]) = old ]_vars

C11_Witness ==
    /\ RunSucceeded
    /\ manifest_map = EmptyMap
    /\ {PathAW, PathAX} \subseteq DOMAIN disk
    /\ UidOf(disk[PathAW]) = Str(Rep("a", 40))
    /\ UidOf(disk[PathAX]) = Str(UidAX)
    /\ Get(disk[PathAX].v, "panels") = Arr(<<PanelAngular>>)

\* the slug of the path of a file relative to the dashboards root: suffix
\* removed, separators replaced by hyphens, then slugified
PathSlug(p) == slugify_uid(SlashToHyphen(WithoutSuffix(p)))

\* the document main() is assigning a uid to has a "uid" that is not valid
\* and no manifest uid
InvalidUidPresent ==
    /\ pc = "resolve"
    /\ NoManifestUid(docs[idx].path)
    /\ "uid" \in DOMAIN docs[idx].dash.v
    /\ ~ValidUidValue(UidOf(docs[idx].dash))

UidChosen == pc = "resolve" /\ dash_uid \notin used_uids

\* C13: the uid chosen for a document is its base when the base is not yet
\* assigned, else base-k for the smallest k >= 2 such that base-k is not yet
\* assigned
C13_SmallestSuffix ==
    UidChosen =>
        IF base \notin used_uids
        THEN dash_uid = base
        ELSE \E k \in 2..(MaxSuffix + 1) :
                /\ dash_uid = base \o <<"-">> \o Dec(k)
                /\ \A m \in 2..(k - 1) : (base \o <<"-">> \o Dec(m)) \in used_uids

\* the string s is a value somewhere in the tree x
RECURSIVE ContainsStr(_, _)
ContainsStr(x, s) ==
    IF x.t = "obj" THEN \E k \in DOMAIN x.v : ContainsStr(x.v[k], s)
    ELSE IF x.t = "arr" THEN \E j \in DOMAIN x.v : ContainsStr(x.v[j], s)
    ELSE x = Str(s)

\* wherever the tree a holds the string old, the tree b holds the string new
RECURSIVE FollowsAt(_, _, _, _)
FollowsAt(a, b, old, new) ==
    IF a = Str(old) THEN b = Str(new)
    ELSE IF a.t = "obj"
         THEN b.t = "obj" /\ \A k \in DOMAIN a.v :
                 k \in DOMAIN b.v /\ FollowsAt(a.v[k], b.v[k], old, new)
         ELSE IF a.t = "arr"
              THEN b.t = "arr" /\ Len(b.v) = Len(a.v)
                   /\ \A j \in DOMAIN a.v : FollowsAt(a.v[j], b.v[j], old, new)
              ELSE TRUE

\* every document is transformed and none is written yet: disk holds the
\* documents as they were, docs as they will be written
AllTransformed == pc = "write" /\ widx = 1

\* C14: a dashboard A that holds the old uid of a dashboard B whose uid the run
\* changes holds the new uid of B at that place, and the old uid nowhere
C14_ReferencesFollow ==
    AllTransformed =>
        \A a, b \in DOMAIN docs :
            LET old == UidOf(disk[docs[b].path])
                new == UidOf(docs[b].dash)
            IN  (a # b /\ old.t = "str" /\ new # old
                       /\ ContainsStr(disk[docs[a].path], old.v))
                    => /\ FollowsAt(disk[docs[a].path], docs[a].dash, old.v, new.v)
                       /\ ~ContainsStr(docs[a].dash, old.v)

\* C15: a second run on the output of a first run, with the same manifest and
\* the same traversal order, changes nothing: every file is written back with
\* the content it had, uid, title, id and datasource values included
C15_SecondRunChangesNothing ==
    [][ run = 2 => disk' = disk ]_vars

C15_Witness ==
    /\ run = 2
    /\ RunSucceeded
    /\ Len(docs) = 3
    /\ UidOf(docs[1].dash) = Str(UidAX)
    /\ UidOf(docs[2].dash) = Str(UidAX \o <<"-","2">>)
    /\ TitleOf(docs[2].dash) = Str(<<"T"," ","(","a","-","x","-","2",")">>)
    /\ Get(docs[3].dash.v, "panels").t = "arr"
    /\ Get(docs[3].dash.v, "panels").v[1].v["datasource"] = CanonicalProm

\* the final component of the path p starts with a dot
IsDotfile(p) == LastIndexOf(p, "/") < Len(p) /\ p[LastIndexOf(p, "/") + 1] = "."

\* C16: the documents of a run are the *.json files except manifest.json and
\* dotfiles, and the manifest file is given neither a uid nor an id
C16_ManifestExcluded ==
    /\ \A k \in DOMAIN docs :
          docs[k].path # ManifestPath /\ ~IsDotfile(docs[k].path)
    /\ (ManifestPath \in DOMAIN disk /\ disk[ManifestPath].t = "obj")
          => DOMAIN disk[ManifestPath].v \cap {"uid", "id"} = {}

\* some *.json file under the root is not the text of a JSON object
SomeFileBroken == \E p \in DOMAIN disk : disk[p].t # "obj"

\* C17: when a file under the root does not parse to a JSON object, no step of
\* the run writes a file and the run ends with a non-zero exit code
C17_BrokenFileAborts ==
    [][ SomeFileBroken => (disk' = disk /\ (pc' = "done" => rc' \notin {-1, 0})) ]_vars

C17_Witness ==
    /\ pc = "done"
    /\ rc = 3
    /\ DOMAIN disk = {PathAW, PathAX, PathAY}
    /\ disk[PathAW] = Dict([uid |-> Str(UidU)])
    /\ disk[PathAX] = Bad
    /\ disk[PathAY] = Arr(<<>>)

\* C18: without a manifest file the override map is empty and the run goes on
\* to load the dashboards; with a manifest file that is not valid JSON the run
\* fails at once, no dashboard read and no file written
C18_ManifestMissingOrInvalid ==
    [][ /\ ManifestPath \notin DOMAIN disk
            => (manifest_map' = EmptyMap /\ (pc = "start" => pc' = "load"))
        /\ (ManifestPath \in DOMAIN disk /\ disk[ManifestPath] = Bad)
            => /\ pc' = "done"
               /\ rc' \notin {-1, 0}
               /\ docs' = <<>>
               /\ disk' = disk ]_vars

C18_Witness ==
    /\ pc = "done"
    /\ rc = 1
    /\ ManifestPath \in DOMAIN disk
    /\ disk[ManifestPath] = Bad
    /\ PathAW \in DOMAIN disk
    /\ disk[PathAW] = Dict([uid |-> Str(UidU)])
    /\ docs = <<>>

\* C19: a run that has detected an angular panel does not fail for it: it
\* goes on without an error status and, when it ends, it returns 0 with every
\* document normalized (id null, valid uid) and written to its file
C19_AngularNotBlocking ==
    angular_files # <<>> =>
        /\ rc \in {-1, 0}
        /\ pc = "done" =>
              /\ rc = 0
              /\ \A k \in DOMAIN docs :
                    /\ disk[docs[k].path] = docs[k].dash
                    /\ "id" \in DOMAIN docs[k].dash.v
                    /\ docs[k].dash.v["id"] = None
                    /\ ValidUidValue(UidOf(docs[k].dash))

C19_Witness ==
    /\ RunSucceeded
    /\ run = 1
    /\ Len(docs) = 3
    /\ angular_files = <<PathAW, PathAY>>
    /\ contains_angular(disk[PathAW])
    /\ ~contains_angular(disk[PathAX])

\* C20: after a successful run no file under the root has a top-level
\* "__inputs" key
C20_NoInputsWritten ==
    RunSucceeded => \A p \in DOMAIN disk : "__inputs" \notin DOMAIN disk[p].v

\* the document without uid of the pool, which carries "__inputs", is written
C20_Witness ==
    /\ RunSucceeded
    /\ run = 1
    /\ PathAX \in DOMAIN disk
    /\ UidOf(disk[PathAX]) = Str(UidAX)
    /\ DOMAIN disk[PathAX].v = {"uid", "title", "id", "panels"}
    /\ disk[PathAX].v["panels"].v[1].v["datasource"] = CanonicalProm

\* C21: after a successful run every file under the root has a top-level "id"
\* that is null
C21_IdNull ==
    RunSucceeded =>
        \A p \in DOMAIN disk :
            "id" \in DOMAIN disk[p].v /\ disk[p].v["id"] = None

\* the document with the blank uid of the pool, which carries "id": 7, is
\* written
C21_Witness ==
    /\ RunSucceeded
    /\ run = 1
    /\ PathAW \in DOMAIN disk
    /\ DOMAIN disk[PathAW].v = {"uid", "title", "id"}
    /\ UidOf(disk[PathAW]) = Str(<<"a","-","w">>)
    /\ disk[PathAW].v["id"] = None

\* the keys that hold a query
QueryKeys == {"expr", "query", "definition"}

\* the trees a and b hold the same query strings at the same places
RECURSIVE QueriesKept(_, _)
QueriesKept(a, b) ==
    IF a.t = "obj"
    THEN /\ b.t = "obj"
         /\ \A k \in QueryKeys \cap DOMAIN a.v :
               a.v[k].t = "str" => (k \in DOMAIN b.v /\ b.v[k] = a.v[k])
         /\ \A k \in QueryKeys \cap DOMAIN b.v :
               b.v[k].t = "str" => (k \in DOMAIN a.v /\ a.v[k] = b.v[k])
         /\ \A k \in DOMAIN a.v \cap DOMAIN b.v : QueriesKept(a.v[k], b.v[k])
    ELSE IF a.t = "arr"
         THEN /\ b.t = "arr"
              /\ Len(b.v) = Len(a.v)
              /\ \A j \in DOMAIN a.v : QueriesKept(a.v[j], b.v[j])
         ELSE TRUE

\* C22: no file has a query patched: a document is written back with the
\* query strings (expr, query, definition) it had, each at its place (the
\* import metadata under the top-level "__inputs", removed as a whole, aside)
C22_QueriesUnchanged ==
    [][ WritesDoc =>
          LET p == docs[widx].path
          IN  QueriesKept(Obj(Pop(disk[p].v, "__inputs")), disk'[p]) ]_vars

C22_Witness ==
    /\ RunSucceeded
    /\ run = 1
    /\ PathAW \in DOMAIN disk
    /\ DOMAIN disk[PathAW].v = {"uid", "title", "id", "panels"}
    /\ disk[PathAW].v["panels"].v[1].v["datasource"] = CanonicalProm
    /\ disk[PathAW].v["panels"].v[1].v["targets"] =
          Arr(<< Dict([expr |-> Str(<<"u","p">>), query |-> Str(PROM_PLACEHOLDER),
                       datasource |-> CanonicalProm]) >>)

\* main() is in the loop of lines 263-297
InDocLoop == pc \in {"assign", "resolve"}

\* the uid of docs[k] is assigned / the datasources of docs[k] are rewritten:
\* both are done by the iteration k of the loop of lines 263-297
UidAssigned(k) == pc \in {"write", "done"} \/ (InDocLoop /\ k < idx)

DatasourcesRewritten(k) == pc \in {"write", "done"} \/ (InDocLoop /\ k < idx)

DedupsTitles == pc = "assign" /\ pc' = "write"

\* the documents before docs[k] in the folder of docs[k]
EarlierInFolder(k) ==
    { j \in 1..(k - 1) : Parent(docs[j].path) = Parent(docs[k].path) }

\* "{t} ({u})" and "{t} ({u}-n)"
Composite(t, u) == t \o <<" ", "(">> \o u \o <<")">>

CompositeN(t, u, n) == t \o <<" ", "(">> \o u \o <<"-">> \o Dec(n) \o <<")">>

\* the title t, once rewritten for the uid u, given the titles used so far
IsRewrittenTitle(new, t, u, used) ==
    IF Composite(t, u) \notin used
    THEN new = Str(Composite(t, u))
    ELSE \E n \in 2..(MaxDocs + 2) :
            /\ new = Str(CompositeN(t, u, n))
            /\ CompositeN(t, u, n) \notin used
            /\ \A m \in 2..(n - 1) : CompositeN(t, u, m) \in used

\* C24 as stated: the first document of a folder with a given title keeps it,
\* a later one with the same title gets "{title} ({uid})", or
\* "{title} ({uid}-k)" for the smallest free k >= 2
C24_FirstKeepsLaterSuffixed ==
    [][ DedupsTitles =>
          \A k \in DOMAIN docs :
              LET title == TitleOf(docs[k].dash)
                  same  == { j \in EarlierInFolder(k) : TitleOf(docs[j].dash) = title }
                  used  == { TitleOf(docs'[j].dash).v : j \in EarlierInFolder(k) }
              IN  title.t = "str" =>
                    IF same = {}
                    THEN docs'[k] = docs[k]
                    ELSE IsRewrittenTitle(TitleOf(docs'[k].dash), title.v,
                                          UidOf(docs[k].dash).v, used) ]_vars

\* the title as it is compared: text, stripped, "Dashboard" when missing or empty
EffectiveTitle(dash) ==
    LET x == TitleOf(dash)
        s == IF Truthy(x) THEN Strip(PyStr(x)) ELSE <<>>
    IN  IF s = <<>> THEN <<"D","a","s","h","b","o","a","r","d">> ELSE s

\* C24 amended: titles are compared stripped, "Dashboard" standing for a missing
\* or empty one; a document whose stripped title is not yet used in its folder,
\* by a kept or by a rewritten title, keeps its title; any other gets
\* "{t} ({uid})" for its stripped title t, or "{t} ({uid}-k)" for the smallest
\* free k >= 2; nothing else of a document changes and other folders do not count
C24_StrippedTitleDedup ==
    [][ DedupsTitles =>
          /\ Len(docs') = Len(docs)
          /\ \A k \in DOMAIN docs :
                LET t    == EffectiveTitle(docs[k].dash)
                    used == { EffectiveTitle(docs'[j].dash) : j \in EarlierInFolder(k) }
                IN  IF t \notin used
                    THEN docs'[k] = docs[k]
                    ELSE /\ docs'[k].path = docs[k].path
                         /\ Pop(docs'[k].dash.v, "title") = Pop(docs[k].dash.v, "title")
                         /\ IsRewrittenTitle(TitleOf(docs'[k].dash), t,
                                             UidOf(docs[k].dash).v, used) ]_vars

C24_Witness ==
    /\ pc = "write"
    /\ run = 1
    /\ Len(docs) = 3
    /\ docs[1].path = PathAW /\ docs[2].path = PathBX /\ docs[3].path = PathAX
    /\ TitleOf(docs[1].dash) = Str(<<" ","T"," ">>)
    /\ TitleOf(docs[2].dash) = Str(<<"T">>)
    /\ TitleOf(docs[3].dash) = Str(<<"T"," ","(","u","-","3",")">>)
    /\ disk[PathAX].v["title"] = Str(<<" ","T"," ">>)

-----------------------------------------------------------------------------
(* tests/_lib/http.py: wait_http_ok *)

\* bound on the parameter timeout_s, in seconds
MaxTimeout == 3

\* requests.get(..., timeout=3): a request takes up to 3 seconds
GetTimeout == 3

\* what requests.get gives: a response with a status code, or an exception
Response(code) == [kind |-> "status", code |-> code]

NetworkError == [kind |-> "error", code |-> 0]

HttpResponses ==
    { Response(c) : c \in {199, 200, 302, 399, 400, 404, 503} } \cup {NetworkError}

\* variant: the upper limit of line 25 taken inclusive
IsSuccessUpTo400(code) == 200 <= code /\ code <= 400

\* line 25: 200 <= r.status_code < 400
IsSuccess(code) == 200 <= code /\ code < 400

InitHttp ==
    /\ now \in 0..1
    /\ timeout_s \in 0..MaxTimeout
    /\ w_pc = "loop"
    /\ t0 = now
    /\ w_last = <<>>
    /\ seen = <<>>
    /\ r_pc = "off"
    /\ assert_fn = "none"
    /\ interval_s = 0
    /\ deadline = 0
    /\ last_err = <<>>
    /\ raised = <<>>
    /\ calls = <<>>
    /\ e_pc = "off"
    /\ loader = "none"
    /\ env_file = NoFile
    /\ environ = <<>>
    /\ b_pc = "off"
    /\ candidate = <<>>
    /\ hook_blocked = FALSE
    /\ test_blocked = FALSE
    /\ op = "off"
    /\ node_in = None
    /\ node_out = None
    /\ files = <<>>
    /\ disk = EmptyMap
    /\ pc = "off"
    /\ rc = -1
    /\ manifest_map = EmptyMap
    /\ docs = <<>>
    /\ idx = 0
    /\ used_uids = {}
    /\ base = <<>>
    /\ dash_uid = <<>>
    /\ i = 0
    /\ angular_files = <<>>
    /\ widx = 0
    /\ run = 0

\* lines 22 and 33: the loop goes on while the timeout has not passed, then
\* AssertionError is raised
WaitLoop ==
    /\ w_pc = "loop"
    /\ w_pc' = IF now - t0 < timeout_s THEN "get" ELSE "raised"
    /\ UNCHANGED <<now, timeout_s, t0, w_last, seen, retryVars, envVars, blockVars,
                   mainVars, dsVars>>

\* lines 23-30: one request; a success status returns, any other status and
\* any exception is noted in last
WaitGet ==
    /\ w_pc = "get"
    /\ \E resp \in HttpResponses, d \in 0..GetTimeout :
          /\ now' = now + d
          /\ seen' = Append(seen, resp)
          /\ IF resp.kind = "status" /\ IsSuccess(resp.code)
             THEN w_pc' = "returned" /\ w_last' = w_last
             ELSE w_pc' = "sleep" /\ w_last' = resp
    /\ UNCHANGED <<timeout_s, t0, retryVars, envVars, blockVars, mainVars, dsVars>>

\* line 31: time.sleep(1)
WaitSleep ==
    /\ w_pc = "sleep"
    /\ now' = now + 1
    /\ w_pc' = "loop"
    /\ UNCHANGED <<timeout_s, t0, w_last, seen, retryVars, envVars, blockVars,
                   mainVars, dsVars>>

NextHttp == WaitLoop \/ WaitGet \/ WaitSleep

SpecHttp == InitHttp /\ [][NextHttp]_vars

\* the call is not suspended for ever: requests and sleeps come to their end
FairSpecHttp == SpecHttp /\ WF_vars(NextHttp)

\* a response with a status in 200..399
GoodResponse(resp) == resp.kind = "status" /\ resp.code \in 200..399

\* C25: wait_http_ok returns only right after a response with a status in
\* 200..399; after any other response or an error it sleeps and tries again;
\* it raises AssertionError only once the timeout has passed without such a
\* response; and every call ends, returning or raising
C25_WaitHttpOk ==
    /\ [](w_pc = "returned" => (seen # <<>> /\ GoodResponse(seen[Len(seen)])))
    /\ [](w_pc = "sleep" => (seen # <<>> /\ ~GoodResponse(seen[Len(seen)])))
    /\ [](w_pc = "raised" =>
             /\ now - t0 >= timeout_s
             /\ \A k \in DOMAIN seen : ~GoodResponse(seen[k]))
    /\ <>(w_pc \in {"returned", "raised"})

C25_Witness ==
    /\ w_pc = "returned"
    /\ seen = <<Response(503), NetworkError, Response(302)>>

-----------------------------------------------------------------------------
(* The placeholder after a walk (SpecDs) *)

\* a datasource value that is the placeholder string, or an object whose uid
\* is the placeholder
IsPlaceholderRef(v) ==
    \/ v = Str(PROM_PLACEHOLDER)
    \/ IsObj(v) /\ Get(v.v, "uid") = Str(PROM_PLACEHOLDER)

\* an object of type "grafana"
HasInternalType(v) == IsObj(v) /\ Get(v.v, "type") = Str(GRAFANA_INTERNAL_TYPE)

RECURSIVE NoPlaceholderRef(_, _)
\* no value under a "datasource" key of x, at any depth, is a placeholder
\* reference; with internal_kept, objects of type "grafana" are not counted
NoPlaceholderRef(x, internal_kept) ==
    IF IsObj(x) THEN
        \A k \in DOMAIN x.v :
            /\ k = "datasource" =>
                  \/ ~IsPlaceholderRef(x.v[k])
                  \/ internal_kept /\ HasInternalType(x.v[k])
            /\ NoPlaceholderRef(x.v[k], internal_kept)
    ELSE IF IsArr(x) THEN
        \A j \in DOMAIN x.v : NoPlaceholderRef(x.v[j], internal_kept)
    ELSE TRUE

-----------------------------------------------------------------------------
(* tests/postdeploy/conftest.py: retry, and the health wait of               *)
(* tests/postdeploy/test_10_containers.py that runs under it                 *)

\* bound on the parameter interval_s, in seconds
MaxInterval == 2

\* bound on the time one call of assert_fn takes, in seconds
MaxCallTime == 1

\* the n-th call of assert_fn raised AssertionError
AssertionErr(n) == [kind |-> "AssertionError", id |-> n]

\* line 72: AssertionError("retry timeout")
RetryTimeout == [kind |-> "AssertionError", id |-> 0]

\* pytest.fail: the outcome exception Failed, which is no AssertionError
Failed(n) == [kind |-> "Failed", id |-> n]

\* any exception that is no AssertionError, such as RuntimeError
OtherErr(n) == [kind |-> "RuntimeError", id |-> n]

\* assert_fn finished without raising
Passed == [kind |-> "pass", id |-> 0]

\* values of the Health column of compose ps; <<>> when the column is missing
\* or the service has no row
HealthValues ==
    { <<"h","e","a","l","t","h","y">>, <<"H","e","a","l","t","h","y">>,
      <<"u","n","h","e","a","l","t","h","y">>, <<"U","N","H","E","A","L","T","H","Y">>,
      <<"s","t","a","r","t","i","n","g">>, <<>> }

\* variant: an unhealthy service fails the assertion of line 151 only
wait_for_healthy_assert_only(health_col, n) ==
    IF Lower(health_col) = <<"h","e","a","l","t","h","y">> THEN Passed
    ELSE AssertionErr(n)

\* test_10_containers.py lines 133-151: the outcome of the n-th poll that
\* reads health_col in the Health column
wait_for_healthy(health_col, n) ==
    LET health == Lower(health_col)
    IN  IF health = <<"u","n","h","e","a","l","t","h","y">> THEN Failed(n)
        ELSE IF health = <<"h","e","a","l","t","h","y">> THEN Passed
        ELSE AssertionErr(n)

\* the n-th call of assert_fn: what it read and how it ended
CallResults(fn, n) ==
    IF fn = "_wait_for_healthy"
    THEN { [health |-> h, out |-> wait_for_healthy(h, n)] : h \in HealthValues }
    ELSE { [health |-> <<"-">>, out |-> o] : o \in {Passed, AssertionErr(n), OtherErr(n)} }

InitRetry ==
    /\ now \in 0..1
    /\ timeout_s \in 0..MaxTimeout
    /\ interval_s \in 1..MaxInterval
    /\ assert_fn \in {"_check", "_wait_for_healthy"}
    /\ r_pc = "loop"
    /\ deadline = now + timeout_s
    /\ last_err = <<>>
    /\ raised = <<>>
    /\ calls = <<>>
    /\ w_pc = "off"
    /\ t0 = 0
    /\ w_last = <<>>
    /\ seen = <<>>
    /\ e_pc = "off"
    /\ loader = "none"
    /\ env_file = NoFile
    /\ environ = <<>>
    /\ b_pc = "off"
    /\ candidate = <<>>
    /\ hook_blocked = FALSE
    /\ test_blocked = FALSE
    /\ op = "off"
    /\ node_in = None
    /\ node_out = None
    /\ files = <<>>
    /\ disk = EmptyMap
    /\ pc = "off"
    /\ rc = -1
    /\ manifest_map = EmptyMap
    /\ docs = <<>>
    /\ idx = 0
    /\ used_uids = {}
    /\ base = <<>>
    /\ dash_uid = <<>>
    /\ i = 0
    /\ angular_files = <<>>
    /\ widx = 0
    /\ run = 0

\* variant: line 72 raises the timeout error whatever was caught before
RetryLoopForgetsLast ==
    /\ r_pc = "loop"
    /\ IF now < deadline
       THEN r_pc' = "call" /\ raised' = raised
       ELSE r_pc' = "raised" /\ raised' = RetryTimeout
    /\ UNCHANGED <<now, timeout_s, assert_fn, interval_s, deadline, last_err, calls,
                   httpVars, envVars, blockVars, mainVars, dsVars>>

\* lines 65 and 72: the loop goes on while the deadline has not come, then
\* the last AssertionError caught, or a new one, is raised
RetryLoop ==
    /\ r_pc = "loop"
    /\ IF now < deadline
       THEN r_pc' = "call" /\ raised' = raised
       ELSE r_pc' = "raised" /\ raised' = IF last_err # <<>> THEN last_err ELSE RetryTimeout
    /\ UNCHANGED <<now, timeout_s, assert_fn, interval_s, deadline, last_err, calls,
                   httpVars, envVars, blockVars, mainVars, dsVars>>

\* lines 66-70: one call of assert_fn; only AssertionError is caught
RetryCall ==
    /\ r_pc = "call"
    /\ \E res \in CallResults(assert_fn, Len(calls) + 1), d \in 0..MaxCallTime :
          /\ now' = now + d
          /\ calls' = Append(calls, res)
          /\ IF res.out = Passed
             THEN r_pc' = "returned" /\ UNCHANGED <<last_err, raised>>
             ELSE IF res.out.kind = "AssertionError"
             THEN r_pc' = "sleep" /\ last_err' = res.out /\ raised' = raised
             ELSE r_pc' = "raised" /\ raised' = res.out /\ last_err' = last_err
    /\ UNCHANGED <<timeout_s, assert_fn, interval_s, deadline,
                   httpVars, envVars, blockVars, mainVars, dsVars>>

\* line 71: time.sleep(interval_s)
RetrySleep ==
    /\ r_pc = "sleep"
    /\ now' = now + interval_s
    /\ r_pc' = "loop"
    /\ UNCHANGED <<timeout_s, assert_fn, interval_s, deadline, last_err, raised, calls,
                   httpVars, envVars, blockVars, mainVars, dsVars>>

NextRetry == RetryLoop \/ RetryCall \/ RetrySleep

SpecRetry == InitRetry /\ [][NextRetry]_vars

\* assert_fn and the sleep come to their end
FairSpecRetry == SpecRetry /\ WF_vars(NextRetry)

\* the calls before the last one all raised AssertionError
EarlierCallsAsserted ==
    \A k \in 1..(Len(calls) - 1) : calls[k].out.kind = "AssertionError"

\* C27: retry returns only right after a call of assert_fn that did not raise,
\* every call before it having raised AssertionError; when the deadline comes
\* after calls that all raised AssertionError it raises the last of them; an
\* exception that is no AssertionError is raised at once, with no further
\* call; and every retry ends
C27_Retry ==
    /\ [](r_pc = "returned" =>
             /\ calls # <<>>
             /\ calls[Len(calls)].out = Passed
             /\ EarlierCallsAsserted)
    /\ [](r_pc = "raised" /\ calls # <<>> =>
             /\ raised = calls[Len(calls)].out
             /\ raised # Passed
             /\ EarlierCallsAsserted
             /\ (raised.kind = "AssertionError" => now >= deadline))
    /\ [](\A k \in DOMAIN calls :
             calls[k].out.kind \notin {"pass", "AssertionError"} =>
                 k = Len(calls) /\ r_pc = "raised")
    /\ <>(r_pc \in {"returned", "raised"})

C27_Witness ==
    /\ r_pc = "raised"
    /\ assert_fn = "_check"
    /\ Len(calls) = 2
    /\ raised = AssertionErr(2)

\* Health values that read unhealthy, in any case of the letters
UnhealthyValues ==
    { <<"u","n","h","e","a","l","t","h","y">>, <<"U","N","H","E","A","L","T","H","Y">> }

\* Health values that read healthy, in any case of the letters
HealthyValues ==
    { <<"h","e","a","l","t","h","y">>, <<"H","e","a","l","t","h","y">> }

\* every round of the loop takes a second or more
MaxPolls == MaxTimeout + 1

\* C28: in the health wait a poll that reads unhealthy is the last poll and
\* ends the wait with the failure of pytest.fail; a poll that reads any value
\* other than healthy or unhealthy is followed by a sleep and, when the
\* deadline has not come by then, by one more poll; the wait gives up on such
\* values only once the deadline has come
C28_HealthWait ==
    /\ [](assert_fn = "_wait_for_healthy" =>
             \A k \in DOMAIN calls :
                 calls[k].health \in UnhealthyValues =>
                     /\ k = Len(calls)
                     /\ r_pc = "raised"
                     /\ raised = Failed(k))
    /\ [](assert_fn = "_wait_for_healthy" /\ calls # <<>>
             /\ calls[Len(calls)].health \notin UnhealthyValues \cup HealthyValues =>
                 /\ r_pc \in {"sleep", "loop", "call", "raised"}
                 /\ (r_pc = "raised" => now >= deadline /\ raised = AssertionErr(Len(calls))))
    /\ \A n \in 1..MaxPolls :
          (/\ assert_fn = "_wait_for_healthy"
           /\ r_pc = "sleep"
           /\ Len(calls) = n
           /\ now + interval_s < deadline) ~> (Len(calls) = n + 1)

C28_Witness ==
    /\ assert_fn = "_wait_for_healthy"
    /\ r_pc = "raised"
    /\ Len(calls) = 3
    /\ calls[1].health = <<"s","t","a","r","t","i","n","g">>
    /\ calls[2].health = <<>>
    /\ calls[3].health = <<"U","N","H","E","A","L","T","H","Y">>
    /\ raised = Failed(3)

-----------------------------------------------------------------------------
(* _load_env_file_if_present of tests/conftest.py and of                     *)
(* tests/postdeploy/conftest.py                                              *)

\* bound on the number of lines of the env file
MaxLines == 3

\* lines of an env file, as text.splitlines() gives them
EnvLines ==
    { <<"A","=","1">>, <<"A","=","2">>, <<" ","B"," ","="," ","3"," ">>,
      <<"B","=","x","=","y">>, <<"A","=">>, <<"#","A","=","9">>, <<"=","5">>,
      <<"A">>, <<>> }

\* the place of the first "=" of s
FirstEq(s) == CHOOSE j \in DOMAIN s : s[j] = "=" /\ \A m \in 1..(j - 1) : s[m] # "="

\* the test of a line that is passed over: blank, comment, or without "="
IsSkipped(line) ==
    LET ln == Strip(line)
    IN  ln = <<>> \/ ln[1] = "#" \/ (\A j \in DOMAIN ln : ln[j] # "=")

\* k of k, v = s.split("=", 1), stripped
LineKey(line) ==
    LET ln == Strip(line)
    IN  Strip(SubSeq(ln, 1, FirstEq(ln) - 1))

\* v of k, v = s.split("=", 1), stripped
LineValue(line) ==
    LET ln == Strip(line)
    IN  Strip(SubSeq(ln, FirstEq(ln) + 1, Len(ln)))

\* variant: plain assignment os.environ[k] = v
setdefault_overwrites(env, k, v) == Put(env, k, v)

\* os.environ.setdefault(k, v)
setdefault(env, k, v) == IF k \in DOMAIN env THEN env ELSE Put(env, k, v)

RECURSIVE LoadLines(_, _, _, _)
\* the loop over the lines from line j on; os.environ refuses an empty name
\* with OSError, which only the loader of tests/conftest.py avoids
LoadLines(which, lines, j, env) ==
    IF j > Len(lines) THEN [environ |-> env, raised |-> FALSE]
    ELSE IF IsSkipped(lines[j]) THEN LoadLines(which, lines, j + 1, env)
    ELSE IF LineKey(lines[j]) = <<>>
         THEN IF which = "tests" THEN LoadLines(which, lines, j + 1, env)
              ELSE [environ |-> env, raised |-> TRUE]
    ELSE LoadLines(which, lines, j + 1,
                   setdefault(env, LineKey(lines[j]), LineValue(lines[j])))

\* a missing file is passed over by both loaders; an unreadable one by the
\* loader of tests/postdeploy/conftest.py only
load_env_file_if_present(which, file, env) ==
    IF ~file.exists THEN [environ |-> env, raised |-> FALSE]
    ELSE IF ~file.readable
         THEN [environ |-> env, raised |-> which = "tests"]
    ELSE LoadLines(which, file.lines, 1, env)

InitEnv ==
    /\ loader \in {"tests", "postdeploy"}
    /\ env_file \in {NoFile} \cup
          { [exists |-> TRUE, readable |-> r, lines |-> ls] :
              r \in BOOLEAN,
              ls \in UNION { [1..n -> EnvLines] : n \in 0..MaxLines } }
    /\ environ \in { EmptyMap,
                     [k \in {<<"A">>} |-> <<"0">>],
                     [k \in {<<"A">>, <<"B">>} |-> <<"0">>] }
    /\ e_pc = "start"
    /\ now = 0
    /\ timeout_s = 0
    /\ w_pc = "off"
    /\ t0 = 0
    /\ w_last = <<>>
    /\ seen = <<>>
    /\ r_pc = "off"
    /\ assert_fn = "none"
    /\ interval_s = 0
    /\ deadline = 0
    /\ last_err = <<>>
    /\ raised = <<>>
    /\ calls = <<>>
    /\ b_pc = "off"
    /\ candidate = <<>>
    /\ hook_blocked = FALSE
    /\ test_blocked = FALSE
    /\ op = "off"
    /\ node_in = None
    /\ node_out = None
    /\ files = <<>>
    /\ disk = EmptyMap
    /\ pc = "off"
    /\ rc = -1
    /\ manifest_map = EmptyMap
    /\ docs = <<>>
    /\ idx = 0
    /\ used_uids = {}
    /\ base = <<>>
    /\ dash_uid = <<>>
    /\ i = 0
    /\ angular_files = <<>>
    /\ widx = 0
    /\ run = 0

\* one call of _load_env_file_if_present
LoadEnv ==
    /\ e_pc = "start"
    /\ LET r == load_env_file_if_present(loader, env_file, environ)
       IN  /\ environ' = r.environ
           /\ e_pc' = IF r.raised THEN "error" ELSE "done"
    /\ UNCHANGED <<loader, env_file, now, timeout_s, httpVars, retryVars, blockVars,
                   mainVars, dsVars>>

NextEnv == LoadEnv

SpecEnv == InitEnv /\ [][NextEnv]_vars

\* the lines of the file that assign the key k
AssignsOf(k) ==
    { j \in DOMAIN env_file.lines :
        ~IsSkipped(env_file.lines[j]) /\ LineKey(env_file.lines[j]) = k }

\* C29: a call of _load_env_file_if_present leaves every key that was set
\* before with its value, and a key it adds has the value of the first line
\* of the file that assigns it
C29_ExistingKept ==
    [][ e_pc = "start" /\ e_pc' # "start" =>
          /\ \A k \in DOMAIN environ :
                k \in DOMAIN environ' /\ environ'[k] = environ[k]
          /\ \A k \in DOMAIN environ' \ DOMAIN environ :
                /\ AssignsOf(k) # {}
                /\ \A j \in AssignsOf(k) :
                      (\A m \in AssignsOf(k) : j <= m) =>
                          environ'[k] = LineValue(env_file.lines[j]) ]_vars

C29_Witness ==
    /\ e_pc = "done"
    /\ env_file.lines = << <<"A","=","1">>, <<" ","B"," ","="," ","3"," ">>,
                           <<"B","=","x","=","y">> >>
    /\ environ = [k \in {<<"A">>, <<"B">>} |-> IF k = <<"A">> THEN <<"0">> ELSE <<"3">>]

-----------------------------------------------------------------------------
(* is_blocked of scripts/precommit/block_env_files.py and of                 *)
(* tests/precommit/test_10_no_tracked_env_and_secrets.py                     *)

\* bound on the number of folders above the file
MaxDirs == 2

\* BLOCKED_EXACT of the hook
BLOCKED_EXACT ==
    {
      <<".","e","n","v">>, <<".","e","n","v",".","l","o","c","a","l">>,
      <<".","e","n","v",".","p","r","o","d">>,
      <<".","e","n","v",".","p","r","o","d","u","c","t","i","o","n">>,
      <<".","e","n","v",".","d","e","v","e","l","o","p","m","e","n","t">>,
      <<"a","l","e","r","t","m","a","n","a","g","e","r",".","e","n","v">> }

\* BLOCKED_EXACT of the test
TEST_BLOCKED_EXACT ==
    {
      <<".","e","n","v">>, <<".","e","n","v",".","l","o","c","a","l">>,
      <<".","e","n","v",".","p","r","o","d">>,
      <<".","e","n","v",".","p","r","o","d","u","c","t","i","o","n">>,
      <<".","e","n","v",".","d","e","v","e","l","o","p","m","e","n","t">> }

BLOCKED_SUFFIXES ==
    { <<".","p","e","m">>, <<".","k","e","y">>, <<".","p","1","2">>, <<".","p","f","x">> }

ALLOWED_ENV_EXAMPLES ==
    {
      <<".","e","n","v",".","e","x","a","m","p","l","e">>,
      <<"e","n","v",".","e","x","a","m","p","l","e">>,
      <<"a","l","e","r","t","m","a","n","a","g","e","r",".","e","n","v",".","e","x","a","m","p","l","e">> }

\* str.endswith(suffix)
EndsWith(s, suffix) ==
    /\ Len(suffix) <= Len(s)
    /\ SubSeq(s, Len(s) - Len(suffix) + 1, Len(s)) = suffix

\* is_blocked of the hook
is_blocked(p) ==
    LET name == p[Len(p)]
    IN  IF name \in BLOCKED_EXACT THEN TRUE
        ELSE IF \E x \in BLOCKED_SUFFIXES : EndsWith(name, x) THEN TRUE
        ELSE \E j \in DOMAIN p : Lower(p[j]) = <<"s","e","c","r","e","t","s">>

\* is_blocked of the test
test_is_blocked(p) ==
    LET name == p[Len(p)]
    IN  IF name \in ALLOWED_ENV_EXAMPLES \/ EndsWith(name, <<".","e","n","v",".","e","x","a","m","p","l","e">>)
        THEN FALSE
        ELSE IF name \in TEST_BLOCKED_EXACT THEN TRUE
        ELSE IF \E x \in BLOCKED_SUFFIXES : EndsWith(name, x) THEN TRUE
        ELSE IF EndsWith(name, <<".","e","n","v">>) THEN TRUE
        ELSE \E j \in DOMAIN p : Lower(p[j]) = <<"s","e","c","r","e","t","s">>

\* relative paths as git names them, given by their parts: up to MaxDirs
\* folders and a file name
CandidatePaths ==
    LET FileNames ==
            {
              <<".","e","n","v">>, <<".","e","n","v",".","l","o","c","a","l">>,
              <<".","e","n","v",".","p","r","o","d">>,
              <<".","e","n","v",".","p","r","o","d","u","c","t","i","o","n">>,
              <<".","e","n","v",".","d","e","v","e","l","o","p","m","e","n","t">>,
              <<"a","l","e","r","t","m","a","n","a","g","e","r",".","e","n","v">>,
              <<".","e","n","v",".","e","x","a","m","p","l","e">>,
              <<"e","n","v",".","e","x","a","m","p","l","e">>,
              <<"a","l","e","r","t","m","a","n","a","g","e","r",".","e","n","v",".","e","x","a","m","p","l","e">>,
              <<"m","o","n","i","t","o","r","i","n","g",".","e","n","v">>,
              <<"x",".","e","n","v",".","e","x","a","m","p","l","e">>,
              <<"t","l","s",".","p","e","m">>, <<"i","d",".","k","e","y">>,
              <<"a",".","p","1","2">>, <<"b",".","p","f","x">>,
              <<"R","E","A","D","M","E",".","m","d">>, <<"s","e","c","r","e","t","s">>,
              <<"e","n","v">>, <<"k","e","y",".","p","e","m",".","t","x","t">> }
        DirNames == { <<"s","e","c","r","e","t","s">>, <<"S","e","c","r","e","t","s">>, <<"m","o","n","i","t","o","r","i","n","g">>, <<"m","y","-","s","e","c","r","e","t","s">> }
    IN  { ds \o <<f>> : ds \in UNION { [1..n -> DirNames] : n \in 0..MaxDirs },
                        f \in FileNames }

InitBlock ==
    /\ candidate \in CandidatePaths
    /\ b_pc = "staged"
    /\ hook_blocked = FALSE
    /\ test_blocked = FALSE
    /\ now = 0
    /\ timeout_s = 0
    /\ w_pc = "off"
    /\ t0 = 0
    /\ w_last = <<>>
    /\ seen = <<>>
    /\ r_pc = "off"
    /\ assert_fn = "none"
    /\ interval_s = 0
    /\ deadline = 0
    /\ last_err = <<>>
    /\ raised = <<>>
    /\ calls = <<>>
    /\ e_pc = "off"
    /\ loader = "none"
    /\ env_file = NoFile
    /\ environ = <<>>
    /\ op = "off"
    /\ node_in = None
    /\ node_out = None
    /\ files = <<>>
    /\ disk = EmptyMap
    /\ pc = "off"
    /\ rc = -1
    /\ manifest_map = EmptyMap
    /\ docs = <<>>
    /\ idx = 0
    /\ used_uids = {}
    /\ base = <<>>
    /\ dash_uid = <<>>
    /\ i = 0
    /\ angular_files = <<>>
    /\ widx = 0
    /\ run = 0

\* block_env_files.py main(): the hook judges the staged path
HookCheck ==
    /\ b_pc = "staged"
    /\ hook_blocked' = is_blocked(candidate)
    /\ b_pc' = "hooked"
    /\ UNCHANGED <<candidate, test_blocked, now, timeout_s, httpVars, retryVars, envVars,
                   mainVars, dsVars>>

\* test_no_secret_like_files_tracked: the test judges the same path
TestCheck ==
    /\ b_pc = "hooked"
    /\ test_blocked' = test_is_blocked(candidate)
    /\ b_pc' = "tested"
    /\ UNCHANGED <<candidate, hook_blocked, now, timeout_s, httpVars, retryVars, envVars,
                   mainVars, dsVars>>

NextBlock == HookCheck \/ TestCheck

SpecBlock == InitBlock /\ [][NextBlock]_vars

\* C30: the hook and the test reject the same paths: what the test rejects the
\* hook rejects, and what the hook rejects the test rejects
C30_SamePolicy ==
    b_pc = "tested" => (test_blocked <=> hook_blocked)

=============================================================================
